---- MODULE Spec2Model ----
(***************************************************************************)
(* Model of heatequation.ipynb: explicit finite-difference solution of the *)
(* 2-D heat equation.  The notebook's cells run top to bottom: parameters, *)
(* initial condition, construction of the banded operator A = I + g*L in   *)
(* scipy's DIA layout, allocation of the time series Z, seeding of Z[0],   *)
(* and the stepping loop Z[i] = A.dot(Z[i-1]); Z[i][:n] = boundary.        *)
(*                                                                         *)
(* Arithmetic is exact.  g = a*th/h**2 is the rational  g / one  with      *)
(* th counted in units of 1/ThUnit, so every coefficient of A is stored    *)
(* multiplied by `one`, and frame i is stored multiplied by one^i.         *)
(* float32/float64 rounding of the stored frames is outside the model.     *)
(***************************************************************************)
EXTENDS Integers, Sequences, FiniteSets, TLC

\* ---------------------------------------------------------------- bounds
MaxN == 3          \* grid sizes 2..MaxN
MaxT == 4          \* step counts 1..MaxT
MaxTh == 4         \* time steps th = 1/ThUnit .. MaxTh/ThUnit
Horizon == 4       \* steps looked ahead when a claim asks for "some grid"
OperatorMaxN == 5  \* grid sizes 2..OperatorMaxN where only the operator is examined

\* ------------------------------------------------------ program constants
h == 1             \* h = 1
ThUnit == 8        \* th = 0.125 = 1/8: th is counted in eighths
Alpha == 2         \* a = 2
Hot == 50          \* initial[...] = 50
Boundary == 50     \* Z[i][:n] = 50

VARIABLES n, t, a, th, bc, initial, data, offsets, Z, i, pc, written, applied

vars == <<n, t, a, th, bc, initial, data, offsets, Z, i, pc, written, applied>>

\* ---------------------------------------------------------------- helpers
Abs(x) == IF x < 0 THEN -x ELSE x

Max2(x, y) == IF x >= y THEN x ELSE y

RECURSIVE Pow(_, _)
Pow(b, e) == IF e = 0 THEN 1 ELSE b * Pow(b, e - 1)

RECURSIVE SumTo(_, _)
\* sum of f[0..k-1]
SumTo(f, k) == IF k = 0 THEN 0 ELSE f[k - 1] + SumTo(f, k - 1)

RECURSIVE MaxAbsTo(_, _)
\* max |f[j]| over j in 0..k-1
MaxAbsTo(f, k) == IF k = 0 THEN 0 ELSE Max2(Abs(f[k - 1]), MaxAbsTo(f, k - 1))

Len0(f) == Cardinality(DOMAIN f)

Sum(f) == SumTo(f, Len0(f))

MaxAbs(f) == MaxAbsTo(f, Len0(f))

\* [x for i in range(k)]
Rep(x, k) == [j \in 1..k |-> x]

RECURSIVE Tile(_, _)
\* np.tile(s, k) of a 1-D array
Tile(s, k) == IF k <= 0 THEN <<>> ELSE s \o Tile(s, k - 1)

\* ------------------------------------------------------------- parameters
\* variant: the diffusivity left out of the coefficient
gWithoutA == th

\* g = (a * th) / h**2, as the numerator over `one`
g == a * th

\* the denominator of g, i.e. the stored value of 1
one == ThUnit * h * h

\* ------------------------------------------------------ initial condition
\* a rectangular block of `hot` on a zero background:
\* initial = zeros; initial[r0:r1, c0:c1] = hot
Block(R, C, r0, r1, c0, c1, hot) ==
    [shape |-> <<R, C>>,
     v |-> [r \in 0..R-1 |-> [c \in 0..C-1 |->
              IF r0 <= r /\ r < r1 /\ c0 <= c /\ c < c1 THEN hot ELSE 0]]]

\* an alternating +hot/-hot grid of any shape
Checker(R, C, hot) ==
    [shape |-> <<R, C>>,
     v |-> [r \in 0..R-1 |-> [c \in 0..C-1 |->
              IF (r + c) % 2 = 0 THEN hot ELSE -hot]]]

\* shapes other than n x n an initial array may have
OtherShapes(m) == {<<1, 1>>, <<1, m * m>>, <<m * m, 1>>, <<m - 1, m>>, <<m, m + 1>>}

SquareGrids(m) ==
    {Block(m, m, r0, r1, c0, c1, hot) :
        r0 \in 0..m-1, r1 \in 1..m, c0 \in 0..m-1, c1 \in 1..m, hot \in {Hot, -Hot}}
    \cup {Checker(m, m, hot) : hot \in {Hot, -Hot}}

InitialGrids(m) ==
    SquareGrids(m) \cup {Checker(s[1], s[2], Hot) : s \in OtherShapes(m)}

\* the notebook's own grid:
\* initial = zeros((n, n)); initial[n//3:2*n//3, n//3:2*n//3] = 50
NotebookGrid(m) == Block(m, m, m \div 3, (2 * m) \div 3, m \div 3, (2 * m) \div 3, Hot)

\* initial.flatten(): row-major, as a 0-based array
Flatten(arr) ==
    LET R == arr.shape[1]
        C == arr.shape[2]
    IN  [k \in 0..(R * C - 1) |-> arr.v[k \div C][k % C]]

\* ------------------------------------------------------- operator A (DIA)
\* the row of centre coefficients:
\* append(append(TopRow, tile(MidRow, n-2)), TopRow)
TopRow(m) == <<-2>> \o Rep(-3, m - 2) \o <<-2>>

MidRow(m) == <<-3>> \o Rep(-4, m - 2) \o <<-3>>

\* variant: every grid row treated as a middle row
CentreMidOnly(m) == Tile(MidRow(m), m)

Centre(m) == (TopRow(m) \o Tile(MidRow(m), m - 2)) \o TopRow(m)

\* np.tile([0] + [g]*(n-1), n): the data row of offset +1
UpperRow(m, gam) == Tile(<<0>> \o Rep(gam, m - 1), m)

\* np.tile([g]*(n-1) + [0], n): the data row of offset -1
LowerRow(m, gam) == Tile(Rep(gam, m - 1) \o <<0>>, m)

\* variant: the rows of offsets +1 and -1 exchanged
DataSwapped(m, gam, un) ==
    << Rep(gam, m * m),
       LowerRow(m, gam),
       [k \in 1..Len(Centre(m)) |-> Centre(m)[k] * gam + un],
       UpperRow(m, gam),
       Rep(gam, m * m) >>

\* variant: the +1/-1 rows without their zeros (coupling across row ends)
DataWrap(m, gam, un) ==
    << Rep(gam, m * m),
       Rep(gam, m * m),
       [k \in 1..Len(Centre(m)) |-> Centre(m)[k] * gam + un],
       Rep(gam, m * m),
       Rep(gam, m * m) >>

\* data = np.array([...]): the five diagonals, the centre one "* g + 1"
Data(m, gam, un) ==
    << Rep(gam, m * m),
       UpperRow(m, gam),
       [k \in 1..Len(Centre(m)) |-> Centre(m)[k] * gam + un],
       LowerRow(m, gam),
       Rep(gam, m * m) >>

\* offsets = np.array([n, 1, 0, -1, -n])
Offsets(m) == <<m, 1, 0, -1, -m>>

\* variant: the diagonals read by matrix row instead of by column
DiaAtRowAligned(d, k, row, col) == d[k][row + 1]

\* the DIA layout: diagonal k stores the matrix entry of column `col`
\* (row = col - offsets[k]) at data[k][col]; data rows are 1-based here
DiaAt(d, k, row, col) == d[k][col + 1]

RECURSIVE DiaSum(_, _, _, _, _, _)
\* sum over the diagonals 1..k of what each stores for position (row, col)
DiaSum(d, offs, k, row, col, N) ==
    IF k = 0 THEN 0
    ELSE (IF col - row = offs[k] /\ 0 <= col /\ col < N /\ 0 <= row /\ row < N
          THEN DiaAt(d, k, row, col) ELSE 0)
         + DiaSum(d, offs, k - 1, row, col, N)

\* A[row][col] of A = dia_array((data, offsets), shape=(n**2, n**2))
Entry(d, offs, row, col, N) == DiaSum(d, offs, Len(offs), row, col, N)

RECURSIVE DotRow(_, _, _, _, _, _)
\* entry `row` of A.dot(z): over the diagonals 1..k, the stored coefficient
\* of column row + offs[k] times z there
DotRow(d, offs, k, row, z, N) ==
    IF k = 0 THEN 0
    ELSE (LET col == row + offs[k]
          IN  IF 0 <= col /\ col < N THEN DiaAt(d, k, row, col) * z[col] ELSE 0)
         + DotRow(d, offs, k - 1, row, z, N)

\* A.dot(z)
Dot(d, offs, z, N) == [row \in 0..N-1 |-> DotRow(d, offs, Len(offs), row, z, N)]

\* variant: the slice one entry short
ApplyBoundaryShort(z, m, value) == [j \in DOMAIN z |-> IF j < m - 1 THEN value ELSE z[j]]

\* Z[i][:n] = value
ApplyBoundary(z, m, value) == [j \in DOMAIN z |-> IF j < m THEN value ELSE z[j]]

\* variant: the range one index too long
LoopRangeOffByOne(steps) == 1..steps

\* for i in range(1, t)
LoopRange(steps) == 1..(steps - 1)

\* ------------------------------------------------------------------ state
Init ==
    /\ n \in 2..MaxN
    /\ t \in 1..MaxT
    /\ a \in {1, Alpha}
    /\ th \in 1..MaxTh
    /\ bc \in {0, Boundary}
    /\ initial \in InitialGrids(n)
    /\ data = <<>>
    /\ offsets = <<>>
    /\ Z = <<>>
    /\ i = 0
    /\ pc = "operator"
    /\ written = <<>>
    /\ applied = 0

\* cell 4: data, offsets, A
BuildOperator ==
    /\ pc = "operator"
    /\ data' = Data(n, g, one)
    /\ offsets' = Offsets(n)
    /\ pc' = "alloc"
    /\ UNCHANGED <<n, t, a, th, bc, initial, Z, i, written, applied>>

\* Z = np.zeros((t, n**2), dtype=np.float32)
Allocate ==
    /\ pc = "alloc"
    /\ Z' = [k \in 0..t-1 |-> [j \in 0..(n * n - 1) |-> 0]]
    /\ pc' = "seed"
    /\ UNCHANGED <<n, t, a, th, bc, initial, data, offsets, i, written, applied>>

\* Z[0] = initial.flatten(): numpy copies an array of n**2 elements,
\* broadcasts an array of one element, and raises ValueError otherwise
SeedOk ==
    /\ pc = "seed"
    /\ LET flat == Flatten(initial)
           N == n * n
       IN  /\ Len0(flat) = N \/ Len0(flat) = 1
           /\ Z' = [Z EXCEPT ![0] = [j \in 0..N-1 |->
                        IF Len0(flat) = 1 THEN flat[0] ELSE flat[j]]]
    /\ written' = Append(written, 0)
    /\ i' = 1
    /\ pc' = "loop"
    /\ UNCHANGED <<n, t, a, th, bc, initial, data, offsets, applied>>

SeedFail ==
    /\ pc = "seed"
    /\ LET flat == Flatten(initial)
       IN  Len0(flat) # n * n /\ Len0(flat) # 1
    /\ pc' = "error"
    /\ UNCHANGED <<n, t, a, th, bc, initial, data, offsets, Z, i, written, applied>>

\* loop body: Z[i] = A.dot(Z[i-1]); Z[i][:n] = 50
Step ==
    /\ pc = "loop"
    /\ i \in LoopRange(t)
    /\ Z' = [Z EXCEPT ![i] = ApplyBoundary(Dot(data, offsets, Z[i - 1], n * n),
                                           n, bc * Pow(one, i))]
    /\ written' = Append(written, i)
    /\ applied' = applied + 1
    /\ i' = i + 1
    /\ UNCHANGED <<n, t, a, th, bc, initial, data, offsets, pc>>

\* the range is exhausted; Z = Z.reshape((t, n, n))
Finish ==
    /\ pc = "loop"
    /\ i \notin LoopRange(t)
    /\ pc' = "done"
    /\ UNCHANGED <<n, t, a, th, bc, initial, data, offsets, Z, i, written, applied>>

Next == BuildOperator \/ Allocate \/ SeedOk \/ SeedFail \/ Step \/ Finish

Spec == Init /\ [][Next]_vars

\* the notebook as written (its own initial grid and boundary value), over a
\* wider range of grid sizes: the runs under which the operator is examined
InitNotebook ==
    /\ n \in 2..OperatorMaxN
    /\ t \in 1..MaxT
    /\ a \in {1, Alpha}
    /\ th \in 1..MaxTh
    /\ bc = Boundary
    /\ initial = NotebookGrid(n)
    /\ data = <<>>
    /\ offsets = <<>>
    /\ Z = <<>>
    /\ i = 0
    /\ pc = "operator"
    /\ written = <<>>
    /\ applied = 0

NextNotebook == BuildOperator \/ Allocate \/ SeedOk \/ Step \/ Finish

SpecNotebook == InitNotebook /\ [][NextNotebook]_vars

\* ---------------------------------------------------------------- claims
\* Z[0] has been assigned and the loop has been entered
Seeded == pc \in {"loop", "done"}

\* the initial array has the shape the grid needs
SquareInitial == initial.shape = <<n, n>>

InGrid(r, c) == 0 <= r /\ r < n /\ 0 <= c /\ c < n

\* the number of up/down/left/right neighbours of cell (r, c) inside the grid
NbrCount(r, c) ==
    (IF InGrid(r - 1, c) THEN 1 ELSE 0) + (IF InGrid(r + 1, c) THEN 1 ELSE 0)
    + (IF InGrid(r, c - 1) THEN 1 ELSE 0) + (IF InGrid(r, c + 1) THEN 1 ELSE 0)

\* the sum over the in-grid neighbours nb of cell (r, c) of z[nb] - z[r, c]
NbrDiffSum(z, r, c) ==
    (IF InGrid(r - 1, c) THEN z[(r - 1) * n + c] - z[r * n + c] ELSE 0)
    + (IF InGrid(r + 1, c) THEN z[(r + 1) * n + c] - z[r * n + c] ELSE 0)
    + (IF InGrid(r, c - 1) THEN z[r * n + c - 1] - z[r * n + c] ELSE 0)
    + (IF InGrid(r, c + 1) THEN z[r * n + c + 1] - z[r * n + c] ELSE 0)

\* cells p and q (flat indices) are up/down/left/right neighbours
Adjacent(p, q) ==
    LET pr == p \div n
        pcol == p % n
        qr == q \div n
        qcol == q % n
    IN  \/ pcol = qcol /\ (pr - qr = 1 \/ qr - pr = 1)
        \/ pr = qr /\ (pcol - qcol = 1 \/ qcol - pcol = 1)

\* C1: once step k >= 1 has completed, each of the first n flat entries
\* (grid row 0) of frame k equals the boundary constant exactly (stored at
\* the frame's scale one^k), in every later state as well.
C1_BoundaryInvariant ==
    Seeded => \A k \in 1..(i - 1) : \A j \in 0..(n - 1) : Z[k][j] = bc * Pow(one, k)

\* a finished run of at least two steps whose seeded row 0 differs from the
\* boundary constant and where the overwrite changed what A.dot produced
C1_Witness ==
    /\ pc = "done" /\ t >= 3 /\ SquareInitial
    /\ Z[0][0] # bc
    /\ \E j \in 0..(n - 1) : Dot(data, offsets, Z[1], n * n)[j] # Z[2][j]

\* C2: frame 0 is the flattened initial grid unchanged, row 0 included; and
\* for every completed frame k >= 1 and every cell (r, c) with r >= 1,
\* frame_k[r, c] = frame_{k-1}[r, c] + g * (sum over the in-grid neighbours nb
\* of frame_{k-1}[nb] - frame_{k-1}[r, c]), frame_{k-1} being the stored
\* frame, boundary row included.
C2_Recurrence ==
    Seeded =>
      /\ SquareInitial =>
           \A r \in 0..(n - 1) : \A c \in 0..(n - 1) : Z[0][r * n + c] = initial.v[r][c]
      /\ \A k \in 1..(i - 1) : \A r \in 1..(n - 1) : \A c \in 0..(n - 1) :
           Z[k][r * n + c] = one * Z[k - 1][r * n + c] + g * NbrDiffSum(Z[k - 1], r, c)

\* a finished 3 x 3 run of at least two steps from a grid whose row 0 is not
\* at the boundary constant and whose frames keep changing below row 0
C2_Witness ==
    /\ pc = "done" /\ t >= 3 /\ n = 3 /\ SquareInitial
    /\ \E c \in 0..(n - 1) : Z[0][c] # bc
    /\ \E j \in n..(n * n - 1) : Z[2][j] # one * Z[1][j] /\ Z[1][j] # one * Z[0][j]

\* C3: when th <= h^2/(4a), every completed frame k has largest absolute value
\* at most max(largest absolute value of the initial grid, |boundary constant|).
C3_StableBounded ==
    (Seeded /\ 4 * a * th <= ThUnit * h * h) =>
      \A k \in 0..(i - 1) :
        MaxAbs(Z[k]) <= Pow(one, k) * Max2(MaxAbs(Flatten(initial)), Abs(bc))

\* a finished stable run at the limit th = h^2/(4a) whose last frame still
\* reaches the bound and holds values strictly inside it
C3_Witness ==
    /\ pc = "done" /\ t >= 3 /\ SquareInitial /\ 4 * a * th = ThUnit * h * h
    /\ MaxAbs(Z[t - 1]) = Pow(one, t - 1) * Max2(MaxAbs(Flatten(initial)), Abs(bc))
    /\ \E j \in 0..(n * n - 1) : Z[t - 1][j] # 0 /\ Abs(Z[t - 1][j]) < MaxAbs(Z[t - 1])

\* C6: the loop applies the operator exactly t-1 times and then stops; the
\* frames are written once each in the order 0, 1, ..., each only after its
\* predecessor, never past index t-1; as long as the run has not ended
\* (normally or with the seeding error) a next step exists.
C6_LoopTermination ==
    /\ written = [k \in 1..Len(written) |-> k - 1]
    /\ Len(written) <= t
    /\ applied = (IF Len(written) = 0 THEN 0 ELSE Len(written) - 1)
    /\ Seeded => (i = Len(written) /\ DOMAIN Z = 0..(t - 1))
    /\ pc = "done" => (applied = t - 1 /\ Len(written) = t)
    /\ pc \notin {"done", "error"} => ENABLED Next

\* a finished run of the largest step count
C6_Witness == pc = "done" /\ t = MaxT /\ applied = MaxT - 1 /\ Len(written) = MaxT

\* C7: an initial grid whose shape is not n x n makes the seeding fail: the
\* run never gets past it, no frame is written and no step is taken.
C7_ShapeMismatchFails ==
    ~SquareInitial => (~Seeded /\ written = <<>> /\ applied = 0)

\* the run from frame z0 under the parameters in force: frame k, at scale one^k
RECURSIVE FrameAt(_, _)
FrameAt(z0, k) ==
    IF k = 0 THEN z0
    ELSE ApplyBoundary(Dot(Data(n, g, one), Offsets(n), FrameAt(z0, k - 1), n * n),
                       n, bc * Pow(one, k))

\* the bound stable stepping keeps, at the scale of frame k
BoundAt(z0, k) == Pow(one, k) * Max2(MaxAbs(z0), Abs(bc))

\* from z0 the largest magnitude grows past the bound within Horizon steps
Diverges(z0) ==
    \E k \in 1..Horizon :
        /\ MaxAbs(FrameAt(z0, k)) > BoundAt(z0, k)
        /\ MaxAbs(FrameAt(z0, k)) > one * MaxAbs(FrameAt(z0, k - 1))

Overshoots ==
    \/ n >= 3 /\ 4 * a * th > ThUnit * h * h
    \/ n = 2 /\ 2 * a * th > ThUnit * h * h

Built == pc # "operator"

\* the coefficient the text gives for cell (r, c): -4 interior, -2 corner,
\* -3 on an edge otherwise
CellClass(r, c) ==
    LET rowEdge == r = 0 \/ r = n - 1
        colEdge == c = 0 \/ c = n - 1
    IN  IF rowEdge /\ colEdge THEN -2 ELSE IF rowEdge \/ colEdge THEN -3 ELSE -4

\* C8: the main-diagonal entry of A at flat index p is 1 + g*c(p), c(p) being
\* minus the number of in-grid neighbours of cell (p div n, p mod n), which is
\* -4 / -3 / -2 for interior / edge / corner cells; the diagonal array has
\* exactly n^2 entries.
C8_DiagonalCoefficients ==
    Built =>
      /\ Len(data[3]) = n * n
      /\ \A p \in 0..(n * n - 1) :
           /\ Entry(data, offsets, p, p, n * n) = one + g * (-NbrCount(p \div n, p % n))
           /\ -NbrCount(p \div n, p % n) = CellClass(p \div n, p % n)

\* the operator of a 3 x 3 grid, which has corner, edge and interior cells
C8_Witness ==
    /\ Built /\ n = 3
    /\ Entry(data, offsets, 4, 4, n * n) = one - 4 * g
    /\ Entry(data, offsets, 1, 1, n * n) = one - 3 * g
    /\ Entry(data, offsets, 8, 8, n * n) = one - 2 * g

\* C9: for flat indices p # q, A[p][q] is g exactly when cells p and q are
\* neighbours in the grid and 0 otherwise; in particular A[p][p+1] = 0 for p
\* in column n-1 and A[p][p-1] = 0 for p in column 0.
C9_OffDiagonalCoupling ==
    Built =>
      /\ \A p \in 0..(n * n - 1) : \A q \in 0..(n * n - 1) :
           p # q => Entry(data, offsets, p, q, n * n) = (IF Adjacent(p, q) THEN g ELSE 0)
      /\ \A p \in 0..(n * n - 2) :
           p % n = n - 1 => Entry(data, offsets, p, p + 1, n * n) = 0
      /\ \A p \in 1..(n * n - 1) :
           p % n = 0 => Entry(data, offsets, p, p - 1, n * n) = 0

\* the operator of a 3 x 3 grid: the +1 diagonal stores 0 at column 3 (the
\* entry A[2][3] across the end of row 0) and g at column 2 (A[1][2]); the -1
\* diagonal stores 0 at column 2 (the entry A[3][2])
C9_Witness ==
    /\ Built /\ n = 3 /\ g > 0
    /\ data[2][3 + 1] = 0 /\ Entry(data, offsets, 2, 3, n * n) = 0
    /\ data[2][2 + 1] = g /\ Entry(data, offsets, 1, 2, n * n) = g
    /\ data[4][2 + 1] = 0 /\ Entry(data, offsets, 3, 2, n * n) = 0

RowSum(p) == SumTo([q \in 0..(n * n - 1) |-> Entry(data, offsets, p, q, n * n)], n * n)

ColSum(q) == SumTo([p \in 0..(n * n - 1) |-> Entry(data, offsets, p, q, n * n)], n * n)

\* C10: A is symmetric, each row and each column of A sums to 1 (stored: one);
\* A.dot maps a constant field to itself and keeps the sum of the seeded
\* frame and of the frame after it.
C10_SymmetricStochastic ==
    Built =>
      /\ \A p \in 0..(n * n - 1) : \A q \in 0..(n * n - 1) :
           Entry(data, offsets, p, q, n * n) = Entry(data, offsets, q, p, n * n)
      /\ \A p \in 0..(n * n - 1) : RowSum(p) = one /\ ColSum(p) = one
      /\ Dot(data, offsets, [j \in 0..(n * n - 1) |-> Hot], n * n)
           = [j \in 0..(n * n - 1) |-> one * Hot]
      /\ Seeded =>
           \A k \in 0..(i - 1) :
             k <= 1 => Sum(Dot(data, offsets, Z[k], n * n)) = one * Sum(Z[k])

\* a seeded 3 x 3 run with an uneven frame whose image under A.dot differs
\* from it but has the same sum
C10_Witness ==
    /\ Seeded /\ n = 3 /\ i >= 2
    /\ Sum(Z[1]) # 0
    /\ Dot(data, offsets, Z[1], n * n) # [j \in 0..(n * n - 1) |-> one * Z[1][j]]
    /\ Sum(Dot(data, offsets, Z[1], n * n)) = one * Sum(Z[1])

====
